---- MODULE Spec2Model ----
(***************************************************************************)
(* Model of src/standardise.py: class Standardization.                     *)
(*                                                                         *)
(* A molecule is a record [atoms, bonds, props]:                            *)
(*   atoms : sequence of atoms, an atom being [num, chg, sane]             *)
(*           (atomic number, formal charge, passes the valence check);     *)
(*   bonds : set of two-element sets of atom positions;                    *)
(*   props : function from property names to stored string values.         *)
(* Positions are 1-based here and 0-based in the source; every index list  *)
(* of the source (to_remove, inorganic_frag, metal_frag) is shifted by 1.  *)
(* A string is a sequence of one-character strings.                        *)
(***************************************************************************)
EXTENDS Integers, Sequences, FiniteSets, TLC

\* ---------------------------------------------------------------- bounds
MaxAtoms == 3
MaxCalls == 2

\* ------------------------------------------------------------- atom kinds
Atom(n, c, s) == [num |-> n, chg |-> c, sane |-> s]

\* the atoms the inputs are built from: C, C(-), H, Si, Na, Fe, and a
\* nitrogen whose valence fails the sanity check of the neutraliser
AtomKinds ==
  { Atom(6, 0, TRUE), Atom(6, -1, TRUE), Atom(1, 0, TRUE), Atom(14, 0, TRUE),
    Atom(11, 0, TRUE), Atom(26, 0, TRUE), Atom(7, 0, FALSE) }

Pairs(n) == { e \in SUBSET (1..n) : Cardinality(e) = 2 }

EmptyProps == [k \in {} |-> <<>>]

\* a property bag with one more entry (SetProp)
WithProp(props, k, v) == [x \in (DOMAIN props) \cup {k} |-> IF x = k THEN v ELSE props[x]]

\* the property bags of the input records
InputProps ==
  { [k \in {<<"I", "D">>} |-> <<"x">>],
    [k \in {<<"I", "D">>, <<"_", "N">>} |-> IF k = <<"I", "D">> THEN <<"0", "7">> ELSE <<"m">>] }

\* the bond sets of the input molecules
InputBonds(n) == SUBSET Pairs(n)

NoMol == [atoms |-> <<>>, bonds |-> {}, props |-> EmptyProps]

\* ------------------------------------------------------- RDKit primitives
GetDegree(mol, i) == Cardinality({ e \in mol.bonds : i \in e })

GetNumHeavyAtoms(mol) ==
  Cardinality({ i \in 1..Len(mol.atoms) : mol.atoms[i].num > 1 })

\* position of old position j once position idx is gone
Shift(j, idx) == IF j > idx THEN j - 1 ELSE j

DropAt(s, idx) == [j \in 1..(Len(s) - 1) |-> IF j < idx THEN s[j] ELSE s[j + 1]]

\* EditableMol.RemoveAtom: the atom and its bonds go, later atoms move down
RemoveAtom(mol, idx) ==
  IF idx \notin 1..Len(mol.atoms) THEN mol
  ELSE [atoms |-> DropAt(mol.atoms, idx),
        bonds |-> { { Shift(j, idx) : j \in e } : e \in { f \in mol.bonds : idx \notin f } },
        props |-> mol.props]

\* list.pop(i)
Pop(s, idx) == IF idx \in 1..Len(s) THEN DropAt(s, idx) ELSE s

Reverse(s) == [j \in 1..Len(s) |-> s[Len(s) + 1 - j]]

\* ascending list of the positions of s that satisfy the test
RECURSIVE IndicesFrom(_, _, _)
IndicesFrom(i, n, S) ==
  IF i > n THEN <<>>
  ELSE IF i \in S THEN <<i>> \o IndicesFrom(i + 1, n, S)
  ELSE IndicesFrom(i + 1, n, S)

\* ------------------------------------------------- classification (pure)
allowed_atoms == {1, 6, 7, 8, 9, 14, 15, 16, 17, 35, 53}
salt_metals == {3, 11, 12, 19, 20}

is_inorganic(mol) ==
  ~ \E i \in 1..Len(mol.atoms) : mol.atoms[i].num = 6 \/ mol.atoms[i].num = 14

contains_metal_first_atom(mol) ==
  mol.atoms # <<>> /\ mol.atoms[1].num \notin allowed_atoms

contains_metal(mol) ==
  \E i \in 1..Len(mol.atoms) : mol.atoms[i].num \notin allowed_atoms

\* ------------------------------------------------------ salt-metal stripper
\* the atoms the scan appends to to_remove, in scan order
CollectSaltMetals(mol) ==
  IndicesFrom(1, Len(mol.atoms),
              { i \in 1..Len(mol.atoms) :
                  mol.atoms[i].num \in salt_metals /\ ~(GetDegree(mol, i) > 1) })

\* the order in which the collected indices are handed to RemoveAtom
RemovalOrder_unreversed(to_remove) == to_remove

RemovalOrder(to_remove) == Reverse(to_remove)

RECURSIVE RemoveAtoms(_, _)
RemoveAtoms(mol, order) ==
  IF order = <<>> THEN mol
  ELSE RemoveAtoms(RemoveAtom(mol, Head(order)), Tail(order))

remove_salt_metals(mol) ==
  LET to_remove == CollectSaltMetals(mol)
  IN  IF to_remove # <<>> THEN RemoveAtoms(mol, RemovalOrder(to_remove)) ELSE mol

\* ------------------------------------------------------- fragment splitter
RECURSIVE Reach(_, _)
Reach(S, bonds) ==
  LET T == S \cup UNION { e \in bonds : e \cap S # {} }
  IN  IF T = S THEN S ELSE Reach(T, bonds)

Min(S) == CHOOSE x \in S : \A y \in S : x <= y

\* the fragment on the atom set S: atoms in their order, bonds re-indexed
SubMol(mol, S) ==
  LET idx == IndicesFrom(1, Len(mol.atoms), S)
      rank(j) == CHOOSE r \in 1..Len(idx) : idx[r] = j
  IN  [atoms |-> [r \in 1..Len(idx) |-> mol.atoms[idx[r]]],
       bonds |-> { { rank(j) : j \in e } : e \in { f \in mol.bonds : f \subseteq S } },
       props |-> EmptyProps]

RECURSIVE FragsOf(_, _)
FragsOf(mol, rest) ==
  IF rest = {} THEN <<>>
  ELSE LET S == Reach({Min(rest)}, mol.bonds)
       IN  <<SubMol(mol, S)>> \o FragsOf(mol, rest \ S)

\* Chem.GetMolFrags(mol, asMols=True, sanitizeFrags=False)
GetMolFrags(mol) == FragsOf(mol, 1..Len(mol.atoms))

\* ------------------------------------------------------------- neutraliser
\* UpdatePropertyCache / neutralise raise on an atom that fails the check
NeutraliseRaises(mol) == \E i \in 1..Len(mol.atoms) : ~mol.atoms[i].sane

neutralise(mol) ==
  [atoms |-> [i \in 1..Len(mol.atoms) |-> Atom(mol.atoms[i].num, 0, mol.atoms[i].sane)],
   bonds |-> mol.bonds,
   props |-> mol.props]

\* InchiToInchiKey(MolToInchi(mol)): the structure up to atom numbering
InchiKey(mol) ==
  LET n == Len(mol.atoms)
  IN  { [atoms |-> [j \in 1..n |-> mol.atoms[p[j]]],
         bonds |-> { e \in Pairs(n) : { p[x] : x \in e } \in mol.bonds }] :
        p \in Permutations(1..n) }

\* ---------------------------------------------------------- deduplication
DedupRaises_first(components) ==
  components # <<>> /\ NeutraliseRaises(components[1])

\* the loop of remove_duplicate_components raises at some fragment
DedupRaises(components) ==
  \E i \in 1..Len(components) : NeutraliseRaises(components[i])

\* inchi_keys as the list of its values in insertion order
RECURSIVE DedupLoop(_, _)
DedupLoop(components, kept) ==
  IF components = <<>> THEN kept
  ELSE LET comp == neutralise(Head(components))
           seen == \E i \in 1..Len(kept) : InchiKey(kept[i]) = InchiKey(comp)
       IN  DedupLoop(Tail(components), IF seen THEN kept ELSE Append(kept, comp))

\* the loop with the entry for a key moved to the end on every repeat
RECURSIVE DedupLoop_lastwins(_, _)
DedupLoop_lastwins(components, kept) ==
  IF components = <<>> THEN kept
  ELSE LET comp == neutralise(Head(components))
       IN  DedupLoop_lastwins(Tail(components),
             Append(SelectSeq(kept, LAMBDA c : InchiKey(c) # InchiKey(comp)), comp))

remove_duplicate_components_lastwins(components) == DedupLoop_lastwins(components, <<>>)

remove_duplicate_components(components) == DedupLoop(components, <<>>)

\* ---------------------------------------------------------------- filters
flag_inorganic(components) ==
  IndicesFrom(1, Len(components),
              { i \in 1..Len(components) : is_inorganic(components[i]) })

flag_metals_shifted(components) ==
  IndicesFrom(1, Len(components),
              { i \in 1..Len(components) :
                  i < Len(components) /\ contains_metal(components[i + 1]) })

flag_metals(components) ==
  IndicesFrom(1, Len(components),
              { i \in 1..Len(components) : contains_metal(components[i]) })

PopOrder_unreversed(flags) == flags

\* the order in which flagged positions are popped
PopOrder(flags) == Reverse(flags)

RECURSIVE PopEach(_, _)
PopEach(components, order) ==
  IF order = <<>> THEN components
  ELSE PopEach(Pop(components, Head(order)), Tail(order))

\* ---------------------------------------------------------------- selection
RECURSIVE LargestLoop(_, _, _, _)
LargestLoop(components, i, largest_component, num_atoms) ==
  IF i > Len(components) THEN largest_component
  ELSE IF GetNumHeavyAtoms(components[i]) > num_atoms
       THEN LargestLoop(components, i + 1, i, GetNumHeavyAtoms(components[i]))
       ELSE LargestLoop(components, i + 1, largest_component, num_atoms)

RECURSIVE LargestLoop_ge(_, _, _, _)
LargestLoop_ge(components, i, largest_component, num_atoms) ==
  IF i > Len(components) THEN largest_component
  ELSE IF GetNumHeavyAtoms(components[i]) >= num_atoms
       THEN LargestLoop_ge(components, i + 1, i, GetNumHeavyAtoms(components[i]))
       ELSE LargestLoop_ge(components, i + 1, largest_component, num_atoms)

largest_index_ge(components) == LargestLoop_ge(components, 1, 1, 0)

\* the index get_largest_component ends with
largest_index(components) == LargestLoop(components, 1, 1, 0)

get_largest_component(components) == components[largest_index(components)]

\* --------------------------------------------------------------- properties
Digits == <<"0", "1", "2", "3", "4", "5", "6", "7", "8", "9">>

DigitVal(c) == (CHOOSE d \in 1..10 : Digits[d] = c) - 1

IsIntLiteral(s) ==
  Len(s) > 0 /\ \A i \in 1..Len(s) : \E d \in 1..10 : Digits[d] = s[i]

RECURSIVE ParseInt(_)
ParseInt(s) ==
  IF s = <<>> THEN 0 ELSE 10 * ParseInt(SubSeq(s, 1, Len(s) - 1)) + DigitVal(s[Len(s)])

RECURSIVE IntToStr(_)
IntToStr(n) ==
  IF n < 10 THEN <<Digits[n + 1]>> ELSE IntToStr(n \div 10) \o <<Digits[(n % 10) + 1]>>

\* GetPropsAsDict(): public properties only, numeric strings become numbers
GetPropsAsDict(mol) ==
  [k \in { x \in DOMAIN mol.props : x[1] # "_" } |->
     IF IsIntLiteral(mol.props[k])
     THEN [type |-> "int", val |-> ParseInt(mol.props[k])]
     ELSE [type |-> "str", val |-> mol.props[k]]]

\* str(value)
PyStr(v) == IF v.type = "int" THEN IntToStr(v.val) ELSE v.val

\* for prop, value in properties.items(): mol.SetProp(prop, str(value))
RECURSIVE SetProps(_, _, _)
SetProps(mol, properties, keys) ==
  IF keys = {} THEN mol
  ELSE LET k == CHOOSE x \in keys : TRUE
       IN  SetProps([mol EXCEPT !.props = WithProp(mol.props, k, PyStr(properties[k]))],
                    properties, keys \ {k})

\* the verdict of the single-component branch
SingleCheck_inorganic_first(m) ==
  IF is_inorganic(m) THEN "Molecule is inorganic"
  ELSE IF contains_metal(m) THEN "Molecule contains metal"
  ELSE "ok"

SingleCheck(m) ==
  IF contains_metal(m) THEN "Molecule contains metal"
  ELSE IF is_inorganic(m) THEN "Molecule is inorganic"
  ELSE "ok"

\* ------------------------------------------------------------------- state
VARIABLES
  pc,              \* position in standardise / remove_salt_metals
  input,           \* the molecule passed in
  mol,             \* the local mol
  components,      \* the local components
  inorganic_frag,  \* the local inorganic_frag
  metal_frag,      \* the local metal_frag
  properties,      \* the local properties
  result,          \* the returned tuple
  to_remove,       \* the local to_remove of remove_salt_metals
  stripped,        \* history: the molecule remove_salt_metals returned
  frags,           \* history: the fragments GetMolFrags returned
  deduped,         \* history: the list remove_duplicate_components returned
  afterInorganic,  \* history: the list left once inorganic fragments are popped
  chosen,          \* history: the fragment picked, before properties are set
  handed,          \* history: the molecules handed to the final neutralise
  ids,             \* history: original position of each atom still in mol
  removed,         \* history: the indices passed to RemoveAtom, in order
  starts,          \* history: the argument of each remove_salt_metals call
  results          \* history: the value of each remove_salt_metals call

vars == <<pc, input, mol, components, inorganic_frag, metal_frag, properties, result,
          to_remove, stripped, frags, deduped, afterInorganic, chosen, handed, ids, removed,
          starts, results>>

pipeVars == <<components, inorganic_frag, metal_frag, properties, result,
              frags, deduped, afterInorganic, chosen, handed>>

restVars == <<stripped, to_remove, ids, removed, starts, results>>

stripVars == <<to_remove, ids, removed, starts, results>>

NoResult == <<FALSE, "pending">>

InitCommon ==
  /\ \E n \in 0..MaxAtoms :
       \E a \in [1..n -> AtomKinds], b \in InputBonds(n), p \in InputProps :
         input = [atoms |-> a, bonds |-> b, props |-> p]
  /\ mol = input
  /\ components = <<>>
  /\ inorganic_frag = <<>>
  /\ metal_frag = <<>>
  /\ properties = EmptyProps
  /\ result = NoResult
  /\ to_remove = <<>>
  /\ stripped = NoMol
  /\ frags = <<>>
  /\ deduped = <<>>
  /\ afterInorganic = <<>>
  /\ chosen = NoMol
  /\ handed = <<>>
  /\ ids = <<>>
  /\ removed = <<>>
  /\ starts = <<>>
  /\ results = <<>>

\* ------------------------------------------------------------- standardise
Init == InitCommon /\ pc = "strip"

Strip ==
  /\ pc = "strip"
  /\ mol' = remove_salt_metals(mol)
  /\ stripped' = mol'
  /\ pc' = "split"
  /\ UNCHANGED <<input, pipeVars, stripVars>>

Split ==
  /\ pc = "split"
  /\ components' = GetMolFrags(mol)
  /\ frags' = components'
  /\ IF Len(components') > 1
     THEN /\ properties' = GetPropsAsDict(mol)
          /\ pc' = "dedup"
     ELSE /\ properties' = properties
          /\ pc' = "single"
  /\ UNCHANGED <<input, mol, inorganic_frag, metal_frag, result, deduped,
                 afterInorganic, chosen, handed, restVars>>

DedupFail ==
  /\ pc = "dedup"
  /\ DedupRaises(components)
  /\ result' = <<FALSE, "Molecule could not be neutralised">>
  /\ pc' = "done"
  /\ UNCHANGED <<input, mol, components, inorganic_frag, metal_frag, properties,
                 frags, deduped, afterInorganic, chosen, handed, restVars>>

Dedup ==
  /\ pc = "dedup"
  /\ ~DedupRaises(components)
  /\ components' = remove_duplicate_components(components)
  /\ deduped' = components'
  /\ pc' = "flag_inorganic"
  /\ UNCHANGED <<input, mol, inorganic_frag, metal_frag, properties, result,
                 frags, afterInorganic, chosen, handed, restVars>>

FlagInorganic ==
  /\ pc = "flag_inorganic"
  /\ inorganic_frag' = flag_inorganic(components)
  /\ pc' = "pop_inorganic"
  /\ UNCHANGED <<input, mol, components, metal_frag, properties, result,
                 frags, deduped, afterInorganic, chosen, handed, restVars>>

PopInorganic ==
  /\ pc = "pop_inorganic"
  /\ IF inorganic_frag # <<>>
     THEN /\ inorganic_frag' = PopOrder(inorganic_frag)
          /\ components' = PopEach(components, inorganic_frag')
     ELSE UNCHANGED <<inorganic_frag, components>>
  /\ afterInorganic' = components'
  /\ pc' = "flag_metals"
  /\ UNCHANGED <<input, mol, metal_frag, properties, result,
                 frags, deduped, chosen, handed, restVars>>

FlagMetals ==
  /\ pc = "flag_metals"
  /\ metal_frag' = flag_metals(components)
  /\ pc' = "pop_metals"
  /\ UNCHANGED <<input, mol, components, inorganic_frag, properties, result,
                 frags, deduped, afterInorganic, chosen, handed, restVars>>

PopMetals ==
  /\ pc = "pop_metals"
  /\ IF metal_frag # <<>>
     THEN /\ metal_frag' = PopOrder(metal_frag)
          /\ components' = PopEach(components, metal_frag')
     ELSE UNCHANGED <<metal_frag, components>>
  /\ pc' = "choose"
  /\ UNCHANGED <<input, mol, inorganic_frag, properties, result,
                 frags, deduped, afterInorganic, chosen, handed, restVars>>

Choose ==
  /\ pc = "choose"
  /\ Len(components) > 0
  /\ mol' = IF Len(components) > 1 THEN get_largest_component(components)
            ELSE components[1]
  /\ chosen' = mol'
  /\ pc' = "set_props"
  /\ UNCHANGED <<input, components, inorganic_frag, metal_frag, properties, result,
                 frags, deduped, afterInorganic, handed, restVars>>

NothingLeft ==
  /\ pc = "choose"
  /\ Len(components) = 0
  /\ result' = <<FALSE, "Molecule contained only metals or inorganic compounds">>
  /\ pc' = "done"
  /\ UNCHANGED <<input, mol, components, inorganic_frag, metal_frag, properties,
                 frags, deduped, afterInorganic, chosen, handed, restVars>>

AssignProperties ==
  /\ pc = "set_props"
  /\ mol' = SetProps(mol, properties, DOMAIN properties)
  /\ pc' = "neutralise"
  /\ UNCHANGED <<input, pipeVars, restVars>>

SingleReject ==
  /\ pc = "single"
  /\ SingleCheck(mol) # "ok"
  /\ result' = <<FALSE, SingleCheck(mol)>>
  /\ pc' = "done"
  /\ UNCHANGED <<input, mol, components, inorganic_frag, metal_frag, properties,
                 frags, deduped, afterInorganic, chosen, handed, restVars>>

SinglePass ==
  /\ pc = "single"
  /\ SingleCheck(mol) = "ok"
  /\ pc' = "neutralise"
  /\ UNCHANGED <<input, mol, pipeVars, restVars>>

NeutraliseFail ==
  /\ pc = "neutralise"
  /\ NeutraliseRaises(mol)
  /\ handed' = Append(handed, mol)
  /\ result' = <<FALSE, "Molecule could not be neutralised">>
  /\ pc' = "done"
  /\ UNCHANGED <<input, mol, components, inorganic_frag, metal_frag, properties,
                 frags, deduped, afterInorganic, chosen, restVars>>

Neutralise ==
  /\ pc = "neutralise"
  /\ ~NeutraliseRaises(mol)
  /\ handed' = Append(handed, mol)
  /\ mol' = neutralise(mol)
  /\ result' = <<TRUE, mol'>>
  /\ pc' = "done"
  /\ UNCHANGED <<input, components, inorganic_frag, metal_frag, properties,
                 frags, deduped, afterInorganic, chosen, restVars>>

Next ==
  \/ Strip \/ Split \/ DedupFail \/ Dedup \/ FlagInorganic \/ PopInorganic
  \/ FlagMetals \/ PopMetals \/ Choose \/ NothingLeft \/ AssignProperties
  \/ SingleReject \/ SinglePass \/ NeutraliseFail \/ Neutralise

Spec == Init /\ [][Next]_vars

\* ------------------------------------- remove_salt_metals, statement by statement
InitStrip == InitCommon /\ pc = "rs_scan"

\* lines 139-152: the scan, the test of to_remove and its reversal
Scan ==
  /\ pc = "rs_scan"
  /\ starts' = Append(starts, mol)
  /\ ids' = [i \in 1..Len(mol.atoms) |-> i]
  /\ removed' = <<>>
  /\ LET found == CollectSaltMetals(mol)
     IN  IF found # <<>>
         THEN /\ to_remove' = RemovalOrder(found)
              /\ pc' = "rs_remove"
         ELSE /\ to_remove' = found
              /\ pc' = "rs_return"
  /\ UNCHANGED <<input, mol, pipeVars, stripped, results>>

\* lines 153-154: one iteration of the removal loop
RemoveNext ==
  /\ pc = "rs_remove"
  /\ to_remove # <<>>
  /\ mol' = RemoveAtom(mol, Head(to_remove))
  /\ ids' = Pop(ids, Head(to_remove))
  /\ removed' = Append(removed, Head(to_remove))
  /\ to_remove' = Tail(to_remove)
  /\ pc' = IF to_remove' = <<>> THEN "rs_return" ELSE "rs_remove"
  /\ UNCHANGED <<input, pipeVars, stripped, starts, results>>

\* line 156; the caller then strips the returned molecule again
Return ==
  /\ pc = "rs_return"
  /\ results' = Append(results, mol)
  /\ pc' = IF Len(results') < MaxCalls THEN "rs_scan" ELSE "rs_done"
  /\ UNCHANGED <<input, mol, pipeVars, stripped, to_remove, ids, removed, starts>>

NextStrip == Scan \/ RemoveNext \/ Return

SpecStrip == InitStrip /\ [][NextStrip]_vars

\* ========================================================== properties
\* vocabulary of the properties, written from the atoms alone
SetOf(s) == { s[i] : i \in 1..Len(s) }

StrictlyDescending(s) == \A i \in 1..(Len(s) - 1) : s[i] > s[i + 1]

StrictlyAscending(s) == \A i \in 1..(Len(s) - 1) : s[i] < s[i + 1]

Neighbours(g, i) == { j \in 1..Len(g.atoms) : {i, j} \in g.bonds }

IsSaltMetal(g, i) == g.atoms[i].num \in {3, 11, 12, 19, 20}

\* the salt-metal atoms of g with at most one neighbour
Targets(g) ==
  { i \in 1..Len(g.atoms) : IsSaltMetal(g, i) /\ Cardinality(Neighbours(g, i)) <= 1 }

HasDisallowedAtom(m) ==
  \E i \in 1..Len(m.atoms) :
    m.atoms[i].num \notin {1, 6, 7, 8, 9, 14, 15, 16, 17, 35, 53}

HasCarbonOrSilicon(m) ==
  \E i \in 1..Len(m.atoms) : m.atoms[i].num \in {6, 14}

HeavyCount(m) == Cardinality({ i \in 1..Len(m.atoms) : m.atoms[i].num # 1 })

MultiFragment == Len(frags) > 1

KeepsCoordination(g) ==
  \A i \in 1..Len(g.atoms) :
    (IsSaltMetal(g, i) /\ Cardinality(Neighbours(g, i)) > 1)
      => Cardinality(Neighbours(g, i) \ Targets(g)) > 1

C3_DedupFailureRejectsAll ==
  (MultiFragment /\ pc # "dedup"
     /\ \E i \in 1..Len(frags) : \E a \in 1..Len(frags[i].atoms) : ~frags[i].atoms[a].sane)
  => /\ pc = "done"
     /\ result = <<FALSE, "Molecule could not be neutralised">>
     /\ deduped = <<>> /\ inorganic_frag = <<>> /\ metal_frag = <<>>
     /\ components = frags
     /\ chosen = NoMol /\ handed = <<>>

C3_Witness ==
  /\ pc = "done"
  /\ \E i, j \in 1..Len(frags) :
       /\ \E a \in 1..Len(frags[i].atoms) : ~frags[i].atoms[a].sane
       /\ ~HasCarbonOrSilicon(frags[i])
       /\ HasCarbonOrSilicon(frags[j]) /\ ~HasDisallowedAtom(frags[j])
       /\ \A a \in 1..Len(frags[j].atoms) : frags[j].atoms[a].sane

C5_LargestFirstOnTies ==
  (pc = "set_props" /\ Len(components) > 1) =>
    \E k \in 1..Len(components) :
      /\ chosen = components[k]
      /\ \A j \in 1..Len(components) : HeavyCount(components[j]) <= HeavyCount(components[k])
      /\ \A j \in 1..(k - 1) : HeavyCount(components[j]) < HeavyCount(components[k])

C5_Witness ==
  /\ pc = "set_props"
  /\ Len(components) > 1
  /\ chosen = components[1]
  /\ HeavyCount(components[2]) = HeavyCount(components[1])
  /\ components[2] # components[1]

\* ------------------------------------------------------------------ C6
\* C6: after a success on more than one fragment, the fragment handed to the
\* final neutralisation carries every property of the input molecule with
\* the input's string value.
C6_MetadataPreserved ==
  (pc = "done" /\ result[1] /\ MultiFragment) =>
    \A k \in DOMAIN input.props :
      /\ k \in DOMAIN handed[1].props
      /\ handed[1].props[k] = input.props[k]

\* ------------------------------------------------------------------ C7
\* the neutral form and key of the i-th fragment handed to deduplication
NeutralFrag(i) == neutralise(frags[i])

FirstWithKey(i) ==
  CHOOSE f \in 1..Len(frags) :
    /\ InchiKey(NeutralFrag(f)) = InchiKey(NeutralFrag(i))
    /\ \A g \in 1..(f - 1) : InchiKey(NeutralFrag(g)) # InchiKey(NeutralFrag(i))

MetalThenInorganic(list) ==
  LET m == flag_metals(list)
      afterMetal == IF m # <<>> THEN PopEach(list, PopOrder(m)) ELSE list
      i == flag_inorganic(afterMetal)
  IN  IF i # <<>> THEN PopEach(afterMetal, PopOrder(i)) ELSE afterMetal

\* C8: the fragments left when the inorganic pass and then the metal pass
\* are done are the fragments, in the same order, that the metal pass and then the
\* inorganic pass leave of the deduplicated list.
C8_FilterOrderIrrelevant ==
  pc = "choose" => components = MetalThenInorganic(deduped)

C8_Witness ==
  /\ pc = "choose"
  /\ inorganic_frag # <<>>
  /\ metal_frag # <<>>
  /\ Len(deduped) > Len(inorganic_frag) + Len(metal_frag) - 1

\* ------------------------------------------------------------------ C9
\* both flag lists are filled and not yet reversed
FlaggingDone == pc = "pop_metals"

\* C9 as stated: the metal flags are the positions, in the deduplicated list,
\* of the fragments with a disallowed atom.
C9_MetalFlagsOnDedupedList ==
  FlaggingDone =>
    SetOf(metal_frag) = { i \in 1..Len(deduped) : HasDisallowedAtom(deduped[i]) }

\* C9 amended: the inorganic flags are positions in the deduplicated list;
\* the metal flags are positions, in the list left after the inorganic
\* fragments were removed, of the fragments with a disallowed atom.
C9_MetalFlagsOnRemainingList ==
  FlaggingDone =>
    /\ SetOf(inorganic_frag) = { i \in 1..Len(deduped) : ~HasCarbonOrSilicon(deduped[i]) }
    /\ SetOf(metal_frag) =
         { i \in 1..Len(afterInorganic) : HasDisallowedAtom(afterInorganic[i]) }

C9_Witness ==
  /\ pc = "pop_metals"
  /\ inorganic_frag # <<>>
  /\ metal_frag # <<>>
  /\ afterInorganic # deduped

\* ----------------------------------------------------------------- C10
\* C10: every molecule handed to the final neutralisation has a carbon or
\* silicon atom and no disallowed atom, and an input that salt stripping
\* empties is rejected.
C10_NeutraliseOnlyOrganicNonMetal ==
  /\ \A h \in 1..Len(handed) :
       HasCarbonOrSilicon(handed[h]) /\ ~HasDisallowedAtom(handed[h])
  /\ pc = "neutralise" => HasCarbonOrSilicon(mol) /\ ~HasDisallowedAtom(mol)
  /\ (pc = "done" /\ result[1]) => Len(handed) = 1
  /\ (pc = "done" /\ stripped.atoms = <<>>) => ~result[1]

C10_Witness ==
  /\ pc = "done"
  /\ result[1]
  /\ MultiFragment
  /\ Len(deduped) > 1
  /\ \E i \in 1..Len(deduped) : HasDisallowedAtom(deduped[i])

====
